---- MODULE Spec2Model ----
(***************************************************************************)
(* Model of src/attendance.py: the working-day calculator                  *)
(* (_business_days, working_days_month, working_days_iso_week), the record *)
(* normaliser and the aggregation of process_attendance.                   *)
(*                                                                         *)
(* Representation.                                                         *)
(*   - a date is its proleptic Gregorian ordinal (0001-01-01 = 1), as      *)
(*     datetime.date.toordinal gives it; NaT is the ordinal 0;             *)
(*   - hours are integers in hundredths of an hour (8.0 h = 800): source   *)
(*     values carry at most two decimals, so that the trailing .round(2)   *)
(*     of the result tables is exact on them; a percentage is its ratio    *)
(*     rounded to hundredths, or the undefined value (NaN);                *)
(*   - a text cell is a sequence of one-character strings;                 *)
(*   - a data frame is a sequence of row records, a grouped table is a     *)
(*     function from its group key to the record of its columns.  The      *)
(*     order of the rows of the result tables is not modelled.             *)
(***************************************************************************)
EXTENDS Integers, Sequences, FiniteSets, TLC

(***************************************************************************)
(* Bounds of the model.                                                    *)
(***************************************************************************)
MaxRows == 2            \* rows of the uploaded file
MaxRowsNoHeader == 1    \* rows of a file that lacks a required column
NumYears == 3           \* calendar years the calculator is called on
CalSpan == 12           \* length of the date window _business_days is called on

(***************************************************************************)
(* datetime.date arithmetic (CPython's datetime, used through              *)
(* date(), date.fromisocalendar, timedelta and the pandas .dt accessors).  *)
(***************************************************************************)
NaT == 0

Bool2Int(b) == IF b THEN 1 ELSE 0

is_leap(year) == year % 4 = 0 /\ (year % 100 # 0 \/ year % 400 = 0)

DAYS_IN_MONTH == <<31, 28, 31, 30, 31, 30, 31, 31, 30, 31, 30, 31>>

DAYS_BEFORE_MONTH == <<0, 31, 59, 90, 120, 151, 181, 212, 243, 273, 304, 334>>

days_in_month(year, month) ==
    IF month = 2 /\ is_leap(year) THEN 29 ELSE DAYS_IN_MONTH[month]

days_before_year(year) ==
    LET y == year - 1
    IN  y * 365 + (y \div 4) - (y \div 100) + (y \div 400)

days_before_month(year, month) ==
    DAYS_BEFORE_MONTH[month] + Bool2Int(month > 2 /\ is_leap(year))

\* date(year, month, day).toordinal()
ymd2ord(year, month, day) ==
    days_before_year(year) + days_before_month(year, month) + day

\* date.fromordinal(n) as <<year, month, day>>
ord2ymd(ordinal) ==
    LET n0   == ordinal - 1
        n400 == n0 \div 146097
        r400 == n0 % 146097
        n100 == r400 \div 36524
        r100 == r400 % 36524
        n4   == r100 \div 1461
        r4   == r100 % 1461
        n1   == r4 \div 365
        n    == r4 % 365
        year == n400 * 400 + 1 + n100 * 100 + n4 * 4 + n1
    IN  IF n1 = 4 \/ n100 = 4
        THEN <<year - 1, 12, 31>>
        ELSE LET leapyear == n1 = 3 /\ (n4 # 24 \/ n100 = 3)
                 m0 == (n + 50) \div 32
                 p0 == DAYS_BEFORE_MONTH[m0] + Bool2Int(m0 > 2 /\ leapyear)
                 month == IF p0 > n THEN m0 - 1 ELSE m0
                 preceding ==
                     IF p0 > n
                     THEN p0 - (DAYS_IN_MONTH[month] + Bool2Int(month = 2 /\ leapyear))
                     ELSE p0
             IN  <<year, month, n - preceding + 1>>

YearOf(d) == ord2ymd(d)[1]

\* date.weekday(): Monday = 0 .. Sunday = 6
dayofweek(d) == (d + 6) % 7

isoweek1monday(year) ==
    LET firstday == ymd2ord(year, 1, 1)
        firstweekday == (firstday + 6) % 7
        week1monday == firstday - firstweekday
    IN  IF firstweekday > 3 THEN week1monday + 7 ELSE week1monday

\* date.isocalendar() as <<ISO year, ISO week>>
isocalendar(d) ==
    LET year == YearOf(d)
        w1   == isoweek1monday(year)
    IN  IF d < w1
        THEN <<year - 1, ((d - isoweek1monday(year - 1)) \div 7) + 1>>
        ELSE LET week == (d - w1) \div 7
             IN  IF week >= 52 /\ d >= isoweek1monday(year + 1)
                 THEN <<year + 1, 1>>
                 ELSE <<year, week + 1>>

\* the weeks date.fromisocalendar accepts for a year (52, or 53 in a long year)
IsoWeeksInYear(year) ==
    LET first_weekday == dayofweek(ymd2ord(year, 1, 1))
    IN  IF first_weekday = 3 \/ (first_weekday = 2 /\ is_leap(year)) THEN 53 ELSE 52

\* date.fromisocalendar(year, week, day), for a week the year has
fromisocalendar(year, week, day) ==
    isoweek1monday(year) + (week - 1) * 7 + (day - 1)

(***************************************************************************)
(* holidays.country_holidays("EE", years=[year]).keys()                    *)
(***************************************************************************)
COUNTRY_HOLIDAYS == "EE"

\* dateutil.easter.easter(year), western method
easter(year) ==
    LET g == year % 19
        c == year \div 100
        h == (c - (c \div 4) - ((8 * c + 13) \div 25) + 19 * g + 15) % 30
        i == h - (h \div 28) * (1 - (h \div 28) * (29 \div (h + 1)) * ((21 - g) \div 11))
        j == (year + (year \div 4) + i + 2 - c + (c \div 4)) % 7
        p == i - j
        d == 1 + ((p + 27 + ((p + 6) \div 40)) % 31)
        m == 3 + ((p + 26) \div 30)
    IN  ymd2ord(year, m, d)

country_holidays(country, year) ==
    IF country = "EE"
    THEN { ymd2ord(year, 1, 1),  ymd2ord(year, 2, 24),
           easter(year) - 2,     easter(year),
           ymd2ord(year, 5, 1),  easter(year) + 49,
           ymd2ord(year, 6, 23), ymd2ord(year, 6, 24),
           ymd2ord(year, 8, 20), ymd2ord(year, 12, 24),
           ymd2ord(year, 12, 25), ymd2ord(year, 12, 26) }
    ELSE {}

(***************************************************************************)
(* HELPER FUNCTIONS                                                        *)
(***************************************************************************)
DAILY_EXPECTED_HOURS == 800

RECURSIVE SumFirst(_, _)
SumFirst(s, n) == IF n = 0 THEN 0 ELSE s[n] + SumFirst(s, n - 1)

\* sum(s)
SumSeq(s) == SumFirst(s, Len(s))

\* pd.bdate_range(start, end, freq="C", weekmask="Mon Tue Wed Thu Fri"):
\* the Monday-Friday dates from start to end, both included, in order
IsBusinessDay(d) == dayofweek(d) < 5

bdate_range(start, end) ==
    IF start > end THEN <<>>
    ELSE SelectSeq([i \in 1..(end - start + 1) |-> start + i - 1], IsBusinessDay)

\* the holiday test never matches (a Timestamp looked up among dates)
business_days_unfiltered(start, end, holiday_set) == Len(bdate_range(start, end))

business_days(start, end, holiday_set) ==
    LET rng == bdate_range(start, end)
    IN  SumSeq([i \in 1..Len(rng) |-> Bool2Int(rng[i] \notin holiday_set)])

\* datetime(year, month, 1) + MonthBegin(1): the first day of the next month
MonthBegin(year, month) ==
    IF month = 12 THEN ymd2ord(year + 1, 1, 1) ELSE ymd2ord(year, month + 1, 1)

\* the month's length taken from the table of a common year
working_days_month_common_year(year, month, holiday_set) ==
    LET first == ymd2ord(year, month, 1)
    IN  business_days(first, first + DAYS_IN_MONTH[month] - 1, holiday_set)

working_days_month(year, month, holiday_set) ==
    LET first == ymd2ord(year, month, 1)
        last  == MonthBegin(year, month) - 1
    IN  business_days(first, last, holiday_set)

\* the week cut at Thursday
working_days_iso_week_to_thursday(year, iso_week, holiday_set) ==
    LET monday == fromisocalendar(year, iso_week, 1)
    IN  business_days(monday, monday + 3, holiday_set)

working_days_iso_week(year, iso_week, holiday_set) ==
    LET monday == fromisocalendar(year, iso_week, 1)
        friday == monday + 4
    IN  business_days(monday, friday, holiday_set)


(***************************************************************************)
(* Cells of the uploaded table.                                            *)
(*   name  : a string, NaN for a blank cell                                *)
(*   date  : [sep, f1, f2, f3], the text f1 sep f2 sep f3 ("" = blank)     *)
(*   hours : [kind, num], kind "num" (a number, in hundredths), "text"     *)
(*           (text that is no number) or "blank"                           *)
(*   event : [kind, text], kind "str" or "nan" (a blank cell)              *)
(***************************************************************************)
NaN == "<NaN>"

REQUIRED_COLUMNS ==
    {"Attendance date", "Total time worked decimal value", "Event", "Employee name"}

ABSENCE_KEYWORDS ==
    { <<"v","a","c","a","t","i","o","n">>,
      <<"a","n","n","u","a","l"," ","l","e","a","v","e">>,
      <<"l","o","n","g"," ","s","e","r","v","i","c","e"," ","a","w","a","r","d">>,
      <<"m","i","l","i","t","a","r","y"," ","l","e","a","v","e">>,
      <<"s","i","c","k"," ","l","e","a","v","e">> }

UPPER == <<"A","B","C","D","E","F","G","H","I","J","K","L","M",
           "N","O","P","Q","R","S","T","U","V","W","X","Y","Z">>

LOWER == <<"a","b","c","d","e","f","g","h","i","j","k","l","m",
           "n","o","p","q","r","s","t","u","v","w","x","y","z">>

\* str.lower()
lower(text) ==
    [i \in 1..Len(text) |->
        IF \E k \in 1..26 : UPPER[k] = text[i]
        THEN LOWER[CHOOSE k \in 1..26 : UPPER[k] = text[i]]
        ELSE text[i]]

\* k in text, for strings
contains(text, k) ==
    \E i \in 1..(Len(text) - Len(k) + 1) : SubSeq(text, i, i + Len(k) - 1) = k

\* str(text or ""): a NaN cell is truthy and prints as "nan"
str_or_empty(cell) == IF cell.kind = "nan" THEN <<"n","a","n">> ELSE cell.text

is_absence(cell) ==
    LET text == lower(str_or_empty(cell))
    IN  \E k \in ABSENCE_KEYWORDS : contains(text, k)

\* pd.to_datetime(cell, format="%d.%m.%Y", errors="coerce"); the years are
\* those a pandas Timestamp can hold
to_datetime(cell) ==
    IF  /\ cell.sep = "."
        /\ cell.f3 \in 1678..2261
        /\ cell.f2 \in 1..12
        /\ cell.f1 >= 1
        /\ cell.f1 <= days_in_month(cell.f3, cell.f2)
    THEN ymd2ord(cell.f3, cell.f2, cell.f1)
    ELSE NaT

\* pd.to_numeric(cell, errors="coerce").fillna(0.0)
to_numeric_fillna(cell) == IF cell.kind = "num" THEN cell.num ELSE 0

(***************************************************************************)
(* The uploaded files of the model                                         *)
(***************************************************************************)
Range(s) == { s[i] : i \in 1..Len(s) }

Names == <<"Ann", "Bob", NaN>>

DMY(d, m, y) == [sep |-> ".", f1 |-> d, f2 |-> m, f3 |-> y]

\* Mon 23, Tue 24 (Christmas Eve), Fri 27, Sat 28, Mon 30 December 2024 (the
\* last being in ISO week 2025-W01), Thu 2 January 2025, and 2024-12-23
\* written year first
DateCells ==
    << DMY(23, 12, 2024), DMY(24, 12, 2024), DMY(27, 12, 2024), DMY(28, 12, 2024),
       DMY(30, 12, 2024), DMY(2, 1, 2025),
       [sep |-> "-", f1 |-> 2024, f2 |-> 12, f3 |-> 23] >>

Num(h) == [kind |-> "num", num |-> h]

Str(t) == [kind |-> "str", text |-> t]

NoEvent == [kind |-> "nan", text |-> <<>>]

\* the hours and event cells of a row
Payloads ==
    << [hours |-> Num(800), event |-> NoEvent],
       [hours |-> Num(0),
        event |-> Str(<<"A","n","n","u","a","l"," ","L","e","a","v","e">>)],
       [hours |-> [kind |-> "blank", num |-> 0],
        event |-> Str(<<"S","i","c","k"," ","n","o","t","e">>)],
       [hours |-> [kind |-> "text", num |-> 0],
        event |-> Str(<<"V","A","C","A","T","I","O","N"," ","-"," ","t","r","i","p">>)],
       [hours |-> Num(0 - 200), event |-> NoEvent],
       [hours |-> Num(750),
        event |-> Str(<<"s","i","c","k"," ","l","e","a","v","e">>)] >>

Row(n, d, p) ==
    [ name  |-> Names[n], date |-> DateCells[d],
      hours |-> Payloads[p].hours, event |-> Payloads[p].event ]

\* the rows a file is made of, as <<name, date, payload>> indices: every row of
\* Ann, the plain and the leave rows of Bob, and four rows without a name
FileRows ==
    ({1} \X (1..Len(DateCells)) \X (1..Len(Payloads)))
        \cup ({2} \X (1..Len(DateCells)) \X {1, 2})
        \cup ({3} \X {1, 6} \X {1, 2})

\* rows are listed in one order of the cells: no table depends on row order
Rank(n, d, p) == ((n - 1) * Len(DateCells) + (d - 1)) * Len(Payloads) + p

IndexIn(s, v) == CHOOSE i \in 1..Len(s) : s[i] = v

RankOf(row) ==
    Rank(IndexIn(Names, row.name), IndexIn(DateCells, row.date),
         IndexIn(Payloads, [hours |-> row.hours, event |-> row.event]))

(***************************************************************************)
(* process_attendance, lines 99-112: the normalised frame and its filter   *)
(***************************************************************************)
\* df["Event"].map(is_absence): the flag of every value of the Event column
EventMap == [cell \in { p.event : p \in Range(Payloads) } |-> is_absence(cell)]

IsPresent(hours_worked) == hours_worked > 0

Normalize(raw) ==
    [i \in 1..Len(raw) |->
        LET hours_worked == to_numeric_fillna(raw[i].hours)
        IN  [ name        |-> raw[i].name,
              date        |-> to_datetime(raw[i].date),
              HoursWorked |-> hours_worked,
              Present     |-> IsPresent(hours_worked),
              Vacation    |-> EventMap[raw[i].event] ]]

DataYears(df) == { YearOf(r.date) : r \in { q \in Range(df) : q.date # NaT } }

Holidays(df) == UNION { country_holidays(COUNTRY_HOLIDAYS, y) : y \in DataYears(df) }

\* Saturday taken for a weekday
IsWeekdayRowWithSaturday(r) == r.date # NaT /\ dayofweek(r.date) < 6

\* df["Attendance date"].dt.dayofweek < 5 (NaN < 5 is False for a NaT row)
IsWeekdayRow(r) == r.date # NaT /\ dayofweek(r.date) < 5

\* ~df["Attendance date"].dt.date.isin(hols)
IsNonHolidayRow(r, hols) == r.date \notin hols

CleanFrame(df, hols) ==
    LET weekdays == SelectSeq(df, IsWeekdayRow)
    IN  SelectSeq(weekdays, LAMBDA r : IsNonHolidayRow(r, hols))

(***************************************************************************)
(* Aggregation helpers                                                     *)
(***************************************************************************)
\* Series.sum() of a series indexed by group key
RECURSIVE SumFun(_)
SumFun(f) ==
    IF DOMAIN f = {} THEN 0
    ELSE LET k == CHOOSE k \in DOMAIN f : TRUE
         IN  f[k] + SumFun([j \in DOMAIN f \ {k} |-> f[j]])

\* rows["Present"].sum()
PresentSum(rows) == SumSeq([i \in 1..Len(rows) |-> Bool2Int(rows[i].Present)])

\* rows["HoursWorked"].sum()
HoursSum(rows) == SumSeq([i \in 1..Len(rows) |-> rows[i].HoursWorked])

\* groupby("Employee name") and nunique() leave the NaN names out
EmployeeNames(rows) == { r.name : r \in Range(rows) } \ {NaN}

RowsOf(rows, name) == SelectSeq(rows, LAMBDA r : r.name = name)

\* count() in place of nunique(): every absence row counted
VacationDaysPerRow(rows, name) ==
    Len(SelectSeq(rows, LAMBDA r : r.Vacation /\ r.name = name))

\* rows[rows["Vacation"]].groupby(...)["Attendance date"].nunique()
VacationDays(rows, name) ==
    Cardinality({ r.date : r \in { q \in Range(rows) : q.Vacation /\ q.name = name } })

\* x / y.replace(0, pd.NA) under pd.to_numeric(errors="coerce"), rounded by
\* the closing .round(2): a ratio in hundredths, or the NaN of a zero divisor
Undefined == [undef |-> TRUE, val |-> 0]

Round2(num, den) ==
    LET neg == (num < 0) # (den < 0)
        a   == IF num < 0 THEN 0 - 100 * num ELSE 100 * num
        b   == IF den < 0 THEN 0 - den ELSE den
        q   == a \div b
        r   == a % b
        up  == 2 * r > b \/ (2 * r = b /\ q % 2 = 1)
        v   == IF up THEN q + 1 ELSE q
    IN  [undef |-> FALSE, val |-> IF neg THEN 0 - v ELSE v]

PctNA(num, den) == IF den = 0 THEN Undefined ELSE Round2(num, den)

\* x / y if y else 0.0
PctZero(num, den) ==
    IF den # 0 THEN Round2(num, den) ELSE [undef |-> FALSE, val |-> 0]

(***************************************************************************)
(* process_attendance, lines 121-189: the month views                      *)
(***************************************************************************)
\* the frame with its _Year and _Month columns (<<year, month>>) and, from
\* line 192 on, its ISOYear and ISOWeek columns (<<ISO year, ISO week>>)
WithUnits(df) ==
    [i \in 1..Len(df) |->
        LET ymd == ord2ymd(df[i].date)
        IN  [ name        |-> df[i].name,
              date        |-> df[i].date,
              HoursWorked |-> df[i].HoursWorked,
              Present     |-> df[i].Present,
              Vacation    |-> df[i].Vacation,
              month       |-> <<ymd[1], ymd[2]>>,
              iso         |-> isocalendar(df[i].date) ]]

MonthKeys(df) == { r.month : r \in Range(df) }

MonthFrame(df, year, month) == SelectSeq(df, LAMBDA r : r.month = <<year, month>>)

PersonRow(rows, name, working_days) ==
    LET mine          == RowsOf(rows, name)
        days_office   == PresentSum(mine)
        actual_hours  == HoursSum(mine)
        vacation_days == VacationDays(rows, name)
        expected_days == working_days - vacation_days
        expected_hrs  == expected_days * DAILY_EXPECTED_HOURS
    IN  [ DaysInOffice   |-> days_office,
          ActualHours    |-> actual_hours,
          VacationDays   |-> vacation_days,
          WorkingDays    |-> working_days,
          ExpectedDays   |-> expected_days,
          ExpectedHours  |-> expected_hrs,
          PctWorkingDays |-> PctNA(days_office, expected_days),
          PctHours       |-> PctNA(actual_hours, expected_hrs) ]

PersonMonth(df, hols) ==
    LET live == { <<r.month[1], r.month[2], r.name>> :
                    r \in { q \in Range(df) : q.name # NaN } }
    IN  [ k \in live |->
            PersonRow(MonthFrame(df, k[1], k[2]), k[3],
                      working_days_month(k[1], k[2], hols)) ]

TeamSizeMonth(df_month) == Cardinality(EmployeeNames(df_month))

SummaryMonth(df, hols) ==
    [ k \in MonthKeys(df) |->
        LET df_month       == MonthFrame(df, k[1], k[2])
            workdays_month == working_days_month(k[1], k[2], hols)
            team_size      == TeamSizeMonth(df_month)
            vac_pd_month   ==
                SumFun([n \in EmployeeNames(df_month) |-> VacationDays(df_month, n)])
            exp_pd_month   == workdays_month * team_size - vac_pd_month
        IN  [ WorkingDays        |-> workdays_month,
              TeamSize           |-> team_size,
              VacationPersonDays |-> vac_pd_month,
              ExpectedPersonDays |-> exp_pd_month,
              PersonDays         |-> PresentSum(df_month),
              ActualTeamHours    |-> HoursSum(df_month),
              TeamPresencePct    |-> PctZero(PresentSum(df_month), exp_pd_month),
              TeamHoursPct       |-> PctZero(HoursSum(df_month),
                                             exp_pd_month * DAILY_EXPECTED_HOURS) ] ]

(***************************************************************************)
(* process_attendance, lines 192-249: the ISO week views                   *)
(***************************************************************************)
WeekPairs(df) == { r.iso : r \in Range(df) }

WeekFrame(df, iso_year, iso_week) ==
    SelectSeq(df, LAMBDA r : r.iso = <<iso_year, iso_week>>)

\* base_weeks: WorkingDays and ExpectedHoursWeek of every week pair
BaseWeeks(df, hols) ==
    [ k \in WeekPairs(df) |->
        LET working_days == working_days_iso_week(k[1], k[2], hols)
        IN  [ WorkingDays       |-> working_days,
              ExpectedHoursWeek |-> working_days * DAILY_EXPECTED_HOURS ] ]

PersonWeek(df, hols) ==
    LET base_weeks == BaseWeeks(df, hols)
        live == { <<r.iso[1], r.iso[2], r.name>> :
                    r \in { q \in Range(df) : q.name # NaN } }
    IN  [ k \in live |->
            PersonRow(WeekFrame(df, k[1], k[2]), k[3],
                      base_weeks[<<k[1], k[2]>>].WorkingDays) ]

\* team_size_all = df["Employee name"].nunique()
TeamSizeAll(df) == Cardinality(EmployeeNames(df))

TeamWeek(df, hols) ==
    LET base_weeks == BaseWeeks(df, hols)
    IN
    [ k \in WeekPairs(df) |->
        LET df_week       == WeekFrame(df, k[1], k[2])
            working_days  == base_weeks[k].WorkingDays
            person_days   == PresentSum(df_week)
            team_hours    == HoursSum(df_week)
            vac_pd        ==
                SumFun([n \in EmployeeNames(df_week) |-> VacationDays(df_week, n)])
            team_size_all == TeamSizeAll(df)
            expected_pd   == working_days * team_size_all - vac_pd
            expected_hrs  == expected_pd * DAILY_EXPECTED_HOURS
        IN  [ PersonDays         |-> person_days,
              ActualTeamHours    |-> team_hours,
              WorkingDays        |-> working_days,
              ExpectedHoursWeek  |-> base_weeks[k].ExpectedHoursWeek,
              VacPD              |-> vac_pd,
              TeamSize           |-> team_size_all,
              ExpectedPersonDays |-> expected_pd,
              ExpectedTeamHours  |-> expected_hrs,
              TeamPresencePct    |-> PctNA(person_days, expected_pd),
              TeamHoursPct       |-> PctNA(team_hours, expected_hrs) ] ]

(***************************************************************************)
(* The calls of the working-day calculator                                 *)
(***************************************************************************)
CalFirst == ymd2ord(2024, 12, 23)

CalWindow == CalFirst..(CalFirst + CalSpan - 1)

CalYears == 2024..(2024 + NumYears - 1)

\* Tue 24 and Sat 28 December 2024, Thu 29 February 2024
HolidayPool == { ymd2ord(2024, 12, 24), ymd2ord(2024, 12, 28), ymd2ord(2024, 2, 29) }

NoCall ==
    [ fn |-> "", start |-> 0, end |-> 0, year |-> 0, unit |-> 0, holiday_set |-> {},
      extra |-> 0, done |-> FALSE, raised |-> FALSE, res |-> 0, res_extra |-> 0 ]

BusinessDaysCalls ==
    { [NoCall EXCEPT !.fn = "_business_days", !.start = c[1], !.end = c[2],
                     !.holiday_set = c[3], !.extra = c[4]] :
        c \in CalWindow \X CalWindow \X (SUBSET HolidayPool)
                \X ((CalFirst - 1)..(CalFirst + CalSpan)) }

MonthCalls ==
    { [NoCall EXCEPT !.fn = "working_days_month", !.year = c[1], !.unit = c[2],
                     !.holiday_set = c[3]] :
        c \in CalYears \X (1..12) \X (SUBSET HolidayPool) }

IsoWeekCalls ==
    { [NoCall EXCEPT !.fn = "working_days_iso_week", !.year = c[1], !.unit = c[2],
                     !.holiday_set = c[3]] :
        c \in CalYears \X (1..53) \X (SUBSET HolidayPool) }

(***************************************************************************)
(* State                                                                   *)
(***************************************************************************)
VARIABLES
    columns,        \* the columns of the uploaded table
    raw,            \* its rows
    pc,             \* "upload", "done"
    error,          \* "" or the ValueError process_attendance raised
    df,             \* the frame that enters aggregation
    hols,           \* the holiday set
    summary_month,  \* the four result tables
    person_month,
    person_week,
    team_week,
    call            \* a call of the working-day calculator and its result

tables == <<error, df, hols, summary_month, person_month, person_week, team_week>>

vars == <<columns, raw, pc, tables, call>>

NoTables ==
    /\ error = ""
    /\ df = <<>>
    /\ hols = {}
    /\ summary_month = <<>>
    /\ person_month = <<>>
    /\ person_week = <<>>
    /\ team_week = <<>>

Init ==
    /\ columns \in {REQUIRED_COLUMNS} \cup { REQUIRED_COLUMNS \ {c} : c \in REQUIRED_COLUMNS }
    /\ raw = <<>>
    /\ pc = "upload"
    /\ NoTables
    /\ call = NoCall

\* load_attendance_file: one more row of the table
AddRow(n, d, p) ==
    /\ pc = "upload"
    /\ Len(raw) < (IF columns = REQUIRED_COLUMNS THEN MaxRows ELSE MaxRowsNoHeader)
    /\ raw # <<>> => RankOf(raw[Len(raw)]) <= Rank(n, d, p)
    /\ raw' = Append(raw, Row(n, d, p))
    /\ UNCHANGED <<columns, pc, tables, call>>

Raise(msg) ==
    /\ error' = msg
    /\ df' = <<>>
    /\ hols' = {}
    /\ summary_month' = <<>>
    /\ person_month' = <<>>
    /\ person_week' = <<>>
    /\ team_week' = <<>>

process_attendance ==
    /\ pc = "upload"
    /\ pc' = "done"
    /\ UNCHANGED <<columns, raw, call>>
    /\ LET missing    == REQUIRED_COLUMNS \ columns
           normalized == Normalize(raw)
           holidays   == Holidays(normalized)
           clean      == WithUnits(CleanFrame(normalized, holidays))
       IN  IF missing # {}
           THEN Raise("missing required columns")
           ELSE IF clean = <<>>
           THEN Raise("no weekday, non-holiday attendance records")
           ELSE IF \A r \in Range(clean) : r.date = NaT
           THEN Raise("attendance dates could not be parsed")
           ELSE IF MonthKeys(clean) = {}
           THEN Raise("no valid year/month")
           ELSE /\ error' = ""
                /\ df' = clean
                /\ hols' = holidays
                /\ summary_month' = SummaryMonth(clean, holidays)
                /\ person_month' = PersonMonth(clean, holidays)
                /\ person_week' = PersonWeek(clean, holidays)
                /\ team_week' = TeamWeek(clean, holidays)

Next ==
    \/ \E r \in FileRows : AddRow(r[1], r[2], r[3])
    \/ process_attendance

Spec == Init /\ [][Next]_vars

(***************************************************************************)
(* The calculator on its own: a call is drawn, then made.  A               *)
(* _business_days call is made twice, with holiday_set and with            *)
(* holiday_set | {extra}.                                                  *)
(***************************************************************************)
CalInit ==
    /\ columns = REQUIRED_COLUMNS
    /\ raw = <<>>
    /\ pc = "upload"
    /\ NoTables
    /\ call \in BusinessDaysCalls \cup MonthCalls \cup IsoWeekCalls

CallBusinessDays ==
    /\ call.fn = "_business_days" /\ ~call.done
    /\ call' = [call EXCEPT
           !.done = TRUE,
           !.res = business_days(call.start, call.end, call.holiday_set),
           !.res_extra = business_days(call.start, call.end,
                                       call.holiday_set \cup {call.extra})]
    /\ UNCHANGED <<columns, raw, pc, tables>>

CallWorkingDaysMonth ==
    /\ call.fn = "working_days_month" /\ ~call.done
    /\ call' = [call EXCEPT
           !.done = TRUE,
           !.res = working_days_month(call.year, call.unit, call.holiday_set)]
    /\ UNCHANGED <<columns, raw, pc, tables>>

\* date.fromisocalendar raises ValueError for a week the year does not have
CallWorkingDaysIsoWeek ==
    /\ call.fn = "working_days_iso_week" /\ ~call.done
    /\ call' = IF call.unit > IsoWeeksInYear(call.year)
               THEN [call EXCEPT !.done = TRUE, !.raised = TRUE]
               ELSE [call EXCEPT
                        !.done = TRUE,
                        !.res = working_days_iso_week(call.year, call.unit,
                                                      call.holiday_set)]
    /\ UNCHANGED <<columns, raw, pc, tables>>

CalNext ==
    \/ CallBusinessDays
    \/ CallWorkingDaysMonth
    \/ CallWorkingDaysIsoWeek

CalSpec == CalInit /\ [][CalNext]_vars

(***************************************************************************)
(* What the claims are stated against: the uploaded rows themselves        *)
(***************************************************************************)
Returned == pc = "done" /\ error = ""

PublicHoliday(d) == d \in country_holidays(COUNTRY_HOLIDAYS, YearOf(d))

\* Monday..Friday, counted from Monday 23 December 2024
MondayToFriday(d) == (d - ymd2ord(2024, 12, 23)) % 7 \in 0..4

WorkingDate(d) == d # NaT /\ MondayToFriday(d) /\ ~PublicHoliday(d)

DateOfRow(i) == to_datetime(raw[i].date)

HoursOfRow(i) == IF raw[i].hours.kind = "num" THEN raw[i].hours.num ELSE 0

\* the rows with a parseable date on a weekday that is no public holiday
Surviving == { i \in 1..Len(raw) : WorkingDate(DateOfRow(i)) }

InWeek(i, iso_year, iso_week) == isocalendar(DateOfRow(i)) = <<iso_year, iso_week>>

InMonth(i, year, month) ==
    LET ymd == ord2ymd(DateOfRow(i)) IN ymd[1] = year /\ ymd[2] = month

WeekRows(iso_year, iso_week) == { i \in Surviving : InWeek(i, iso_year, iso_week) }

MonthRows(year, month) == { i \in Surviving : InMonth(i, year, month) }

RECURSIVE SumHours(_)
SumHours(rows) ==
    IF rows = {} THEN 0
    ELSE LET i == CHOOSE i \in rows : TRUE IN HoursOfRow(i) + SumHours(rows \ {i})

AbsenceDates(rows) == { DateOfRow(i) : i \in { j \in rows : is_absence(raw[j].event) } }

\* the person row of an employee over the surviving rows of a unit
PersonRowAgrees(row, unit_rows, name, working_days) ==
    LET mine == { i \in unit_rows : raw[i].name = name }
    IN  /\ row.DaysInOffice = Cardinality({ i \in mine : HoursOfRow(i) > 0 })
        /\ row.ActualHours = SumHours(mine)
        /\ row.VacationDays = Cardinality(AbsenceDates(mine))
        /\ row.ExpectedDays = working_days - row.VacationDays

\* C1: every per-person week and month row counts DaysInOffice, ActualHours
\* and VacationDays over the employee's weekday, non-holiday rows of the unit
\* (absences by distinct date), and ExpectedDays = WorkingDays - VacationDays.
C1_PersonRows ==
    Returned =>
        /\ \A k \in DOMAIN person_week :
              PersonRowAgrees(person_week[k], WeekRows(k[1], k[2]), k[3],
                              team_week[<<k[1], k[2]>>].WorkingDays)
        /\ \A k \in DOMAIN person_month :
              PersonRowAgrees(person_month[k], MonthRows(k[1], k[2]), k[3],
                              summary_month[<<k[1], k[2]>>].WorkingDays)

\* a weekday absence row with 0 hours beside an absence row of the same
\* employee on a weekend or holiday: one vacation day, no day in office
C1_Witness ==
    /\ Returned
    /\ \E k \in DOMAIN person_week :
          /\ person_week[k].VacationDays = 1
          /\ person_week[k].DaysInOffice = 0
          /\ person_week[k].ExpectedDays = person_week[k].WorkingDays - 1
          /\ \E i \in 1..Len(raw) :
                /\ raw[i].name = k[3]
                /\ is_absence(raw[i].event)
                /\ DateOfRow(i) # NaT
                /\ ~WorkingDate(DateOfRow(i))

\* the employees of a set of rows
Employees(rows) == { raw[i].name : i \in rows } \ {NaN}

RECURSIVE SumVacation(_, _)
SumVacation(names, rows) ==
    IF names = {} THEN 0
    ELSE LET n == CHOOSE n \in names : TRUE
         IN  Cardinality(AbsenceDates({ i \in rows : raw[i].name = n }))
                + SumVacation(names \ {n}, rows)

\* C2: in the team week view and in the monthly summary, expected person-days
\* are WorkingDays x (employees with a surviving row in that unit) minus the
\* unit's vacation person-days.
C2_TeamSizePerUnit ==
    Returned =>
        /\ \A k \in DOMAIN team_week :
              LET rows == WeekRows(k[1], k[2])
              IN  team_week[k].ExpectedPersonDays =
                      team_week[k].WorkingDays * Cardinality(Employees(rows))
                          - SumVacation(Employees(rows), rows)
        /\ \A k \in DOMAIN summary_month :
              LET rows == MonthRows(k[1], k[2])
              IN  summary_month[k].ExpectedPersonDays =
                      summary_month[k].WorkingDays * Cardinality(Employees(rows))
                          - SumVacation(Employees(rows), rows)

\* C3: in all four views a percentage whose denominator is zero or negative
\* is the undefined value, not 0.0 and not a number at all.
C3_UndefinedOnZeroDenominator ==
    Returned =>
        /\ \A k \in DOMAIN person_month :
              /\ person_month[k].ExpectedDays <= 0
                    => person_month[k].PctWorkingDays = Undefined
              /\ person_month[k].ExpectedHours <= 0
                    => person_month[k].PctHours = Undefined
        /\ \A k \in DOMAIN person_week :
              /\ person_week[k].ExpectedDays <= 0
                    => person_week[k].PctWorkingDays = Undefined
              /\ person_week[k].ExpectedHours <= 0
                    => person_week[k].PctHours = Undefined
        /\ \A k \in DOMAIN team_week :
              /\ team_week[k].ExpectedPersonDays <= 0
                    => team_week[k].TeamPresencePct = Undefined
              /\ team_week[k].ExpectedTeamHours <= 0
                    => team_week[k].TeamHoursPct = Undefined
        /\ \A k \in DOMAIN summary_month :
              summary_month[k].ExpectedPersonDays <= 0
                  => /\ summary_month[k].TeamPresencePct = Undefined
                     /\ summary_month[k].TeamHoursPct = Undefined

\* the Monday of the ISO week of a date
MondayOf(d) == CHOOSE m \in (d - 6)..d : (m - ymd2ord(2024, 12, 23)) % 7 = 0

\* C4: the WorkingDays of every ISO week of the data is the number of
\* Monday..Friday dates of that week that are no public holiday of the country.
C4_WeekWorkingDays ==
    Returned =>
        \A i \in Surviving :
            LET monday == MondayOf(DateOfRow(i))
            IN  team_week[isocalendar(DateOfRow(i))].WorkingDays =
                    Cardinality({ d \in monday..(monday + 4) : ~PublicHoliday(d) })

\* the count of the Monday..Friday dates of start..end outside the holiday set
CountWorkingDates(start, end, holiday_set) ==
    Cardinality({ d \in start..end : MondayToFriday(d) /\ d \notin holiday_set })

\* C5: _business_days counts the Monday..Friday dates of [start, end] outside
\* the holiday set (0 for an empty range); working_days_month does so over the
\* whole month and working_days_iso_week over the ISO Monday and the four days
\* after it.
C5_WorkingDayCounts ==
    (call.done /\ ~call.raised) =>
        CASE call.fn = "_business_days" ->
                call.res = CountWorkingDates(call.start, call.end, call.holiday_set)
          [] call.fn = "working_days_month" ->
                call.res = CountWorkingDates(
                               ymd2ord(call.year, call.unit, 1),
                               ymd2ord(call.year, call.unit,
                                       days_in_month(call.year, call.unit)),
                               call.holiday_set)
          [] call.fn = "working_days_iso_week" ->
                call.res = Cardinality(
                    { d \in (ymd2ord(call.year, 1, 1) - 6)..(ymd2ord(call.year, 12, 31) + 6) :
                        /\ isocalendar(d) = <<call.year, call.unit>>
                        /\ MondayToFriday(d)
                        /\ d \notin call.holiday_set })

\* February of a leap year with 29 February a holiday: 21 weekdays less one
C5_Witness ==
    /\ call.done
    /\ call.fn = "working_days_month"
    /\ call.unit = 2
    /\ is_leap(call.year)
    /\ ymd2ord(call.year, 2, 29) \in call.holiday_set
    /\ call.res = 20

\* C6: a date added to the holiday set lowers _business_days by exactly 1 when
\* it is a Monday..Friday date of [start, end], and leaves it unchanged
\* otherwise; the count never grows.
C6_HolidayAdded ==
    (call.done /\ call.fn = "_business_days" /\ call.extra \notin call.holiday_set) =>
        /\ call.res_extra <= call.res
        /\ call.res_extra =
              IF  /\ MondayToFriday(call.extra)
                  /\ call.start <= call.extra
                  /\ call.extra <= call.end
              THEN call.res - 1
              ELSE call.res

\* a weekday of the range becomes a holiday beside another holiday
C6_Witness ==
    /\ call.done
    /\ call.fn = "_business_days"
    /\ call.holiday_set # {}
    /\ call.extra \notin call.holiday_set
    /\ call.start < call.extra /\ call.extra < call.end
    /\ call.res_extra = call.res - 1

\* C7: process_attendance raises exactly when a required column is missing or
\* no row with a parseable date on a non-holiday weekday remains; otherwise it
\* returns the tables, with a row for every month and week of the data.
C7_RaisesExactly ==
    pc = "done" =>
        /\ error # "" <=> (~(REQUIRED_COLUMNS \subseteq columns) \/ Surviving = {})
        /\ error = "" =>
              /\ DOMAIN summary_month =
                    { <<ord2ymd(DateOfRow(i))[1], ord2ymd(DateOfRow(i))[2]>> : i \in Surviving }
              /\ DOMAIN team_week = { isocalendar(DateOfRow(i)) : i \in Surviving }

\* tables returned from a file with a row whose date does not parse
C7_Witness ==
    /\ Returned
    /\ \E i \in 1..Len(raw) : DateOfRow(i) = NaT
    /\ DOMAIN summary_month # {}

\* C8: every record that enters aggregation has HoursWorked >= 0, 0 for a
\* blank or non-numeric source value, and is present exactly when
\* HoursWorked > 0.
C8_HoursNonNegative ==
    Returned =>
        /\ \A i \in 1..Len(df) :
              /\ df[i].HoursWorked >= 0
              /\ df[i].Present <=> df[i].HoursWorked > 0
        /\ \A k \in DOMAIN team_week : team_week[k].ActualTeamHours >= 0

RECURSIVE SumColumn(_, _, _)
SumColumn(table, keys, column) ==
    IF keys = {} THEN 0
    ELSE LET k == CHOOSE k \in keys : TRUE
         IN  table[k][column] + SumColumn(table, keys \ {k}, column)

\* C9: the team row of a week, and the summary row of a month, carry the sums
\* of DaysInOffice, ActualHours and VacationDays of the unit's person rows.
C9_TeamRollUp ==
    Returned =>
        /\ \A k \in DOMAIN team_week :
              LET rows == { j \in DOMAIN person_week : <<j[1], j[2]>> = k }
              IN  /\ team_week[k].PersonDays = SumColumn(person_week, rows, "DaysInOffice")
                  /\ team_week[k].ActualTeamHours = SumColumn(person_week, rows, "ActualHours")
                  /\ team_week[k].VacPD = SumColumn(person_week, rows, "VacationDays")
        /\ \A k \in DOMAIN summary_month :
              LET rows == { j \in DOMAIN person_month : <<j[1], j[2]>> = k }
              IN  /\ summary_month[k].PersonDays =
                        SumColumn(person_month, rows, "DaysInOffice")
                  /\ summary_month[k].ActualTeamHours =
                        SumColumn(person_month, rows, "ActualHours")
                  /\ summary_month[k].VacationPersonDays =
                        SumColumn(person_month, rows, "VacationDays")

\* C10: every week and month of the tables has WorkingDays >= 1, and every
\* person row has 0 <= VacationDays <= WorkingDays, so that ExpectedDays and
\* ExpectedHours are never negative.
C10_ExpectedNonNegative ==
    Returned =>
        /\ \A k \in DOMAIN team_week : team_week[k].WorkingDays >= 1
        /\ \A k \in DOMAIN summary_month : summary_month[k].WorkingDays >= 1
        /\ \A k \in DOMAIN person_week :
              /\ person_week[k].WorkingDays >= 1
              /\ person_week[k].VacationDays >= 0
              /\ person_week[k].VacationDays <= person_week[k].WorkingDays
              /\ person_week[k].ExpectedDays >= 0
              /\ person_week[k].ExpectedHours >= 0
        /\ \A k \in DOMAIN person_month :
              /\ person_month[k].WorkingDays >= 1
              /\ person_month[k].VacationDays >= 0
              /\ person_month[k].VacationDays <= person_month[k].WorkingDays
              /\ person_month[k].ExpectedDays >= 0
              /\ person_month[k].ExpectedHours >= 0

\* an employee on leave on both working days of the Christmas week of 2024
C10_Witness ==
    /\ Returned
    /\ \E k \in DOMAIN person_week :
          /\ person_week[k].WorkingDays = 2
          /\ person_week[k].VacationDays = 2
          /\ person_week[k].ExpectedDays = 0
          /\ person_week[k].PctWorkingDays = Undefined
====
